---- MODULE Spec2Model ----
(***************************************************************************)
(* tools/analyze_gfortran_ast.py: a single-pass line scanner over gfortran *)
(* AST dumps.  main() walks sys.argv[1:]; process_log_file(fn) reads one   *)
(* file, splits it into lines and keeps two rolling values,                *)
(* curr_procedure and curr_symbol, while printing diagnostics.             *)
(*                                                                         *)
(* Text is modelled as a sequence of lexemes (TLA+ strings): a file name,  *)
(* a line, a captured group and a printed message are all lexeme           *)
(* sequences, and Python's + on str is \o.  The lexemes are chosen so that *)
(* every literal of the program's regular expressions and every substring  *)
(* it tests ("IMPLICIT-SAVE", ".", "'", "\n", ...) is a lexeme of its own  *)
(* and never part of another one; matching is then done lexeme by lexeme   *)
(* exactly as the regular expression does it character by character.       *)
(***************************************************************************)
EXTENDS Naturals, Sequences, FiniteSets

VARIABLES
    argv,            \* sys.argv[1:], the log files given on the command line
    pc,              \* "main" | "for_fn" | "scan" | "exit"
    status,          \* "running" | "exit0" | "exit1" | "IOError" | "TypeError"
    fi,              \* position of the for loop of main() in log_files
    lines,           \* process_log_file: log.split("\n")
    li,              \* position of the for loop over lines
    curr_procedure,  \* None or Some(text)
    curr_symbol,     \* None or Some(text)
    out,             \* standard output; each printed line carries the file
                     \* and line position that printed it (file, line)
    quota            \* lines the environment may still supply in this run

vars == <<argv, pc, status, fi, lines, li, curr_procedure, curr_symbol, out, quota>>

---------------------------------------------------------------------------
(* Bounds of the explored inputs *)

MaxFiles == 2
MaxTotalLines == 4

---------------------------------------------------------------------------
(* Python values *)

None == [some |-> FALSE, val |-> <<>>]
Some(v) == [some |-> TRUE, val |-> v]

\* truth value of an object that is None or a str: None and "" are false
Truthy(x) == x.some /\ x.val # <<>>

NoMatch == [matched |-> FALSE, group1 |-> <<>>]
Match(g) == [matched |-> TRUE, group1 |-> g]

NL == "\n"
WS == "  "

IsSpace(t) == t \in {" ", "  ", "\t"}

\* str.split("\n")
RECURSIVE split(_)
split(log) ==
    IF \E i \in 1..Len(log) : log[i] = NL
    THEN LET i == CHOOSE k \in 1..Len(log) :
                     log[k] = NL /\ \A j \in 1..(k-1) : log[j] # NL
         IN <<SubSeq(log, 1, i-1)>> \o split(SubSeq(log, i+1, Len(log)))
    ELSE <<log>>

\* fn.rsplit(".",1)[0]
rsplit1(fn) ==
    IF \E i \in 1..Len(fn) : fn[i] = "."
    THEN LET i == CHOOSE k \in 1..Len(fn) :
                     fn[k] = "." /\ \A j \in (k+1)..Len(fn) : fn[j] # "."
         IN SubSeq(fn, 1, i-1)
    ELSE fn

\* substring test: s in line
Contains(line, s) == \E i \in 1..Len(line) : line[i] = s

---------------------------------------------------------------------------
(* The regular expressions *)

\* the lexemes consumed by ^\s+ when a non-space literal follows
LeadingSpace(line) ==
    CHOOSE k \in 0..Len(line) :
        /\ \A i \in 1..k : IsSpace(line[i])
        /\ k = Len(line) \/ ~IsSpace(line[k+1])

\* ^\s+<literal>
StartsWith(line, literal) ==
    LET k == LeadingSpace(line)
    IN k >= 1 /\ Len(line) > k /\ line[k+1] = literal

\* ^\s+procedure name = (.*)$
re_procedure(line) ==
    IF StartsWith(line, "procedure name = ")
    THEN Match(SubSeq(line, LeadingSpace(line) + 2, Len(line)))
    ELSE NoMatch

\* the closing quote of '([^']+)' for an opening quote at position q
ClosingQuote(line, q) ==
    CHOOSE j \in (q+1)..Len(line) :
        line[j] = "'" /\ \A k \in (q+1)..(j-1) : line[k] # "'"

\* ^\s+symtree.* symbol: '([^']+)'.*$
\* the positions where " symbol: '" can start with a non-empty quoted name
SymbolAt(line) ==
    { i \in (LeadingSpace(line) + 2)..Len(line) :
        /\ line[i] = " symbol: "
        /\ i + 1 <= Len(line) /\ line[i+1] = "'"
        /\ \E j \in (i+3)..Len(line) : line[j] = "'"
        /\ ClosingQuote(line, i+1) >= i + 3 }

re_symbol(line) ==
    IF StartsWith(line, "symtree") /\ SymbolAt(line) # {}
    THEN LET i == CHOOSE m \in SymbolAt(line) : \A n \in SymbolAt(line) : n <= m
         IN Match(SubSeq(line, i+2, ClosingQuote(line, i+1) - 1))
    ELSE NoMatch

\* ^\s+attributes: (.*)$
re_attr(line) ==
    IF StartsWith(line, "attributes: ")
    THEN Match(SubSeq(line, LeadingSpace(line) + 2, Len(line)))
    ELSE NoMatch

\* ^\s+OPEN
re_open(line) == StartsWith(line, "OPEN")

\* ^\s+CLOSE
re_close(line) == StartsWith(line, "CLOSE")

open_close_exceptions == { <<"cp_files">>, <<"machine_gfortran">>, <<"machine">> }

---------------------------------------------------------------------------
(* The four checks of the loop body and their messages *)

SymbolMsg(fn, cs, cp, attr) ==
    fn \o <<": Symbol \"">> \o cs.val \o <<"\" in procedure \"">> \o cp.val
       \o <<"\" is ", attr>>

CallMsg(fn, cp, stmt) ==
    fn \o <<": direct call to ", stmt, " in procedure \"">> \o cp.val \o <<"'">>

SaveFires(cp, line) ==
    /\ re_attr(line).matched
    /\ Truthy(cp)
    /\ Contains(line, "IMPLICIT-SAVE")
    /\ ~Contains(line, "PARAMETER")

TypeFires(cp, line) ==
    /\ re_attr(line).matched
    /\ Truthy(cp)
    /\ Contains(line, "IMPLICIT-TYPE")

\* as OpenFires, without the test of curr_procedure
OpenFiresAnywhere(fn, cp, line) ==
    /\ re_open(line)
    /\ rsplit1(fn) \notin open_close_exceptions

OpenFires(fn, cp, line) ==
    /\ re_open(line)
    /\ Truthy(cp)
    /\ rsplit1(fn) \notin open_close_exceptions

CloseFires(fn, cp, line) ==
    /\ re_close(line)
    /\ Truthy(cp)
    /\ rsplit1(fn) \notin open_close_exceptions

\* str + None raises TypeError: the first message of an attribute line is
\* built from curr_symbol, which is None until a symbol line was seen
Raises(cp, cs, line) ==
    (SaveFires(cp, line) \/ TypeFires(cp, line)) /\ ~cs.some

\* the messages one line prints, in the order of the four ifs
Messages(fn, cp, cs, line) ==
       (IF SaveFires(cp, line) THEN <<SymbolMsg(fn, cs, cp, "IMPLICIT-SAVE")>> ELSE <<>>)
    \o (IF TypeFires(cp, line) THEN <<SymbolMsg(fn, cs, cp, "IMPLICIT-TYPE")>> ELSE <<>>)
    \o (IF OpenFires(fn, cp, line) THEN <<CallMsg(fn, cp, "OPEN")>> ELSE <<>>)
    \o (IF CloseFires(fn, cp, line) THEN <<CallMsg(fn, cp, "CLOSE")>> ELSE <<>>)

\* as Write, but putting the new lines in front of the old ones
WriteInFront(o, f, l, texts) ==
    [k \in 1..Len(texts) |-> [file |-> f, line |-> l, text |-> texts[k]]] \o o

\* print(msg), once per message
Write(o, f, l, texts) ==
    o \o [k \in 1..Len(texts) |-> [file |-> f, line |-> l, text |-> texts[k]]]

UsageText ==
    << <<"Usage: gfanalyse_gfortran_ast.py <ast-file-1> ... <ast-file-N>">>,
       <<"       For generating the abstract syntax tree (ast) run gfortran">>,
       <<"       with \"-fdump-fortran-original\" and redirect output to file.">>,
       <<"       This can be achieved by putting \"FC_SAVELOG = TRUE\" in the cp2k arch-file.">> >>

---------------------------------------------------------------------------
(* The inputs: file names and file contents *)

Paths ==
    { <<"foo", ".", "log">>,
      <<"cp_files", ".", "log">>,
      <<"obj", "/", "cp_files", ".", "log">> }

LinePool ==
    { <<WS, "procedure name = ", "foo">>,
      <<WS, "procedure name = ">>,
      <<WS, "symtree", ": ", "'", "b", "'", " ||", " symbol: ", "'", "bar", "'", WS>>,
      <<WS, "attributes: ", "(", "IMPLICIT-SAVE", " ", "IMPLICIT-TYPE", ")">>,
      <<WS, "attributes: ", "(", "PARAMETER", " ", "IMPLICIT-SAVE", " ", "IMPLICIT-TYPE", ")">>,
      <<WS, "OPEN", " UNIT=10">>,
      <<WS, "CLOSE", " UNIT=10">> }

RECURSIVE Join(_)
Join(ls) ==
    IF Len(ls) = 0 THEN <<>>
    ELSE IF Len(ls) = 1 THEN ls[1]
    ELSE ls[1] \o <<NL>> \o Join(Tail(ls))

\* the file contents of at most n lines; the empty file is the one line "",
\* which matches none of the five expressions
Logs(n) == { Join(ls) : ls \in UNION { [1..k -> LinePool] : k \in 0..n } }

ArgLists == UNION { [1..k -> Paths] : k \in 0..MaxFiles }

---------------------------------------------------------------------------
(* The program *)

Init ==
    /\ argv \in ArgLists
    /\ pc = "main"
    /\ status = "running"
    /\ fi = 0
    /\ lines = <<>>
    /\ li = 0
    /\ curr_procedure = None
    /\ curr_symbol = None
    /\ out = <<>>
    /\ quota = MaxTotalLines

fn == argv[fi]

\* main, no argument: the usage text and sys.exit(1)
MainUsage ==
    /\ pc = "main"
    /\ Len(argv) < 1
    /\ out' = Write(out, 0, 0, UsageText)
    /\ pc' = "exit"
    /\ status' = "exit1"
    /\ UNCHANGED <<argv, fi, lines, li, curr_procedure, curr_symbol, quota>>

\* main: log_files = sys.argv[1:] and the for loop is entered
MainStart ==
    /\ pc = "main"
    /\ Len(argv) >= 1
    /\ fi' = 1
    /\ pc' = "for_fn"
    /\ UNCHANGED <<argv, status, lines, li, curr_procedure, curr_symbol, out, quota>>

\* as OpenReads, with the scan state kept from the file before
OpenReadsKeepsState ==
    /\ pc = "for_fn"
    /\ fi <= Len(argv)
    /\ \E log \in Logs(quota - (Len(argv) - fi)) :
          /\ lines' = split(log)
          /\ quota' = quota - Len(split(log))
    /\ li' = 1
    /\ pc' = "scan"
    /\ UNCHANGED <<argv, status, fi, out, curr_procedure, curr_symbol>>

\* process_log_file(fn) up to the loop: the file is read and split, the
\* scan state starts as None
OpenReads ==
    /\ pc = "for_fn"
    /\ fi <= Len(argv)
    /\ \E log \in Logs(quota - (Len(argv) - fi)) :
          /\ lines' = split(log)
          /\ quota' = quota - Len(split(log))
    /\ li' = 1
    /\ curr_procedure' = None
    /\ curr_symbol' = None
    /\ pc' = "scan"
    /\ UNCHANGED <<argv, status, fi, out>>

\* as OpenFails, with the error caught and the next file taken
OpenFailsSkipsFile ==
    /\ pc = "for_fn"
    /\ fi <= Len(argv)
    /\ fi' = fi + 1
    /\ status' = "IOError"
    /\ UNCHANGED <<argv, pc, lines, li, curr_procedure, curr_symbol, out, quota>>

\* open(fn) raises: nothing catches it, the process ends
OpenFails ==
    /\ pc = "for_fn"
    /\ fi <= Len(argv)
    /\ pc' = "exit"
    /\ status' = "IOError"
    /\ UNCHANGED <<argv, fi, lines, li, curr_procedure, curr_symbol, out, quota>>

\* as ScanProcedure, with curr_symbol reset for the new procedure
ScanProcedureResetsSymbol ==
    /\ pc = "scan"
    /\ li <= Len(lines)
    /\ re_procedure(lines[li]).matched
    /\ curr_procedure' = Some(re_procedure(lines[li]).group1)
    /\ curr_symbol' = None
    /\ li' = li + 1
    /\ UNCHANGED <<argv, pc, status, fi, lines, out, quota>>

\* a procedure line: curr_procedure = m.group(1); continue
ScanProcedure ==
    /\ pc = "scan"
    /\ li <= Len(lines)
    /\ re_procedure(lines[li]).matched
    /\ curr_procedure' = Some(re_procedure(lines[li]).group1)
    /\ li' = li + 1
    /\ UNCHANGED <<argv, pc, status, fi, lines, curr_symbol, out, quota>>

\* a symbol line: curr_symbol = m.group(1); continue
ScanSymbol ==
    /\ pc = "scan"
    /\ li <= Len(lines)
    /\ ~re_procedure(lines[li]).matched
    /\ re_symbol(lines[li]).matched
    /\ curr_symbol' = Some(re_symbol(lines[li]).group1)
    /\ li' = li + 1
    /\ UNCHANGED <<argv, pc, status, fi, lines, curr_procedure, out, quota>>

\* any other line: the four checks, each printing its message
ScanChecks ==
    /\ pc = "scan"
    /\ li <= Len(lines)
    /\ ~re_procedure(lines[li]).matched
    /\ ~re_symbol(lines[li]).matched
    /\ ~Raises(curr_procedure, curr_symbol, lines[li])
    /\ out' = Write(out, fi, li, Messages(fn, curr_procedure, curr_symbol, lines[li]))
    /\ li' = li + 1
    /\ UNCHANGED <<argv, pc, status, fi, lines, curr_procedure, curr_symbol, quota>>

\* any other line whose message cannot be built: TypeError ends the process
ScanRaises ==
    /\ pc = "scan"
    /\ li <= Len(lines)
    /\ ~re_procedure(lines[li]).matched
    /\ ~re_symbol(lines[li]).matched
    /\ Raises(curr_procedure, curr_symbol, lines[li])
    /\ pc' = "exit"
    /\ status' = "TypeError"
    /\ UNCHANGED <<argv, fi, lines, li, curr_procedure, curr_symbol, out, quota>>

\* the lines are exhausted: process_log_file returns, main takes the next file
ScanEnd ==
    /\ pc = "scan"
    /\ li > Len(lines)
    /\ fi' = fi + 1
    /\ pc' = "for_fn"
    /\ UNCHANGED <<argv, status, lines, li, curr_procedure, curr_symbol, out, quota>>

\* the files are exhausted: main returns, the process ends normally
MainReturn ==
    /\ pc = "for_fn"
    /\ fi > Len(argv)
    /\ pc' = "exit"
    /\ status' = "exit0"
    /\ UNCHANGED <<argv, fi, lines, li, curr_procedure, curr_symbol, out, quota>>

Next ==
    \/ MainUsage
    \/ MainStart
    \/ OpenReads
    \/ OpenFails
    \/ ScanProcedure
    \/ ScanSymbol
    \/ ScanChecks
    \/ ScanRaises
    \/ ScanEnd
    \/ MainReturn

Spec == Init /\ [][Next]_vars

---------------------------------------------------------------------------
(* Vocabulary of the properties *)

\* the output lines printed while file number f was scanned
FileOut(o, f) == SelectSeq(o, LAMBDA e : e.file = f)

TextsOf(o) == [k \in 1..Len(o) |-> o[k].text]

\* what a step has appended to the output
Appended == SubSeq(out', Len(out) + 1, Len(out'))

IsPrefix(s, t) == Len(s) <= Len(t) /\ SubSeq(t, 1, Len(s)) = s

IsSaveMsg(text) == Len(text) > 0 /\ text[Len(text)] = "IMPLICIT-SAVE"
IsTypeMsg(text) == Len(text) > 0 /\ text[Len(text)] = "IMPLICIT-TYPE"

\* the loop is about to examine lines[li]
AtLine == pc = "scan" /\ li <= Len(lines)

\* current_procedure is set, as the program tests it: a non-empty name
ProcedureSet == Truthy(curr_procedure)

\* the capture of the last procedure line among the first n lines of ls
RECURSIVE LastProcedure(_, _)
LastProcedure(ls, n) ==
    IF n = 0 THEN None
    ELSE IF re_procedure(ls[n]).matched THEN Some(re_procedure(ls[n]).group1)
    ELSE LastProcedure(ls, n - 1)

\* the capture of the last symbol line among the first n lines of ls
RECURSIVE LastSymbol(_, _)
LastSymbol(ls, n) ==
    IF n = 0 THEN None
    ELSE IF ~re_procedure(ls[n]).matched /\ re_symbol(ls[n]).matched
         THEN Some(re_symbol(ls[n]).group1)
    ELSE LastSymbol(ls, n - 1)

\* what a scan of the first n lines of ls, read from a file named path, prints
\* when it starts with both values unset
RECURSIVE FreshScan(_, _, _)
FreshScan(path, ls, n) ==
    IF n = 0 THEN <<>>
    ELSE FreshScan(path, ls, n - 1) \o
         (IF re_procedure(ls[n]).matched \/ re_symbol(ls[n]).matched THEN <<>>
          ELSE Messages(path, LastProcedure(ls, n - 1), LastSymbol(ls, n - 1), ls[n]))

\* the base filename without its extension
BaseName(path) ==
    LET s == IF \E i \in 1..Len(path) : path[i] = "/"
             THEN LET i == CHOOSE k \in 1..Len(path) :
                              path[k] = "/" /\ \A j \in (k+1)..Len(path) : path[j] # "/"
                  IN SubSeq(path, i + 1, Len(path))
             ELSE path
    IN rsplit1(s)

---------------------------------------------------------------------------
(* C1: an attribute line with IMPLICIT-SAVE and without PARAMETER that     *)
(* comes after a procedure line of its file gets exactly one IMPLICIT-SAVE *)
(* diagnostic, naming the symbol of the most recent symbol line and the    *)
(* procedure of the most recent procedure line.                            *)
C1_ImplicitSaveReported ==
    [][ ( /\ AtLine
          /\ re_attr(lines[li]).matched
          /\ Contains(lines[li], "IMPLICIT-SAVE")
          /\ ~Contains(lines[li], "PARAMETER")
          /\ \E j \in 1..(li - 1) : re_procedure(lines[j]).matched )
        => SelectSeq(TextsOf(FileOut(out', fi)), IsSaveMsg)
             = SelectSeq(TextsOf(FileOut(out, fi)), IsSaveMsg) \o
               << SymbolMsg(fn, LastSymbol(lines, li - 1),
                            LastProcedure(lines, li - 1), "IMPLICIT-SAVE") >>
      ]_vars

(* C2: for an attribute line processed while current_procedure is set,     *)
(* PARAMETER suppresses the IMPLICIT-SAVE diagnostic, and the              *)
(* IMPLICIT-TYPE diagnostic is printed exactly if the line contains        *)
(* IMPLICIT-TYPE.                                                          *)
C2_ParameterSuppressesSaveOnly ==
    [][ ( /\ AtLine
          /\ ~re_procedure(lines[li]).matched
          /\ ~re_symbol(lines[li]).matched
          /\ re_attr(lines[li]).matched
          /\ ProcedureSet )
        => /\ Contains(lines[li], "PARAMETER")
                => SelectSeq(TextsOf(Appended), IsSaveMsg) = <<>>
           /\ Contains(lines[li], "IMPLICIT-TYPE")
                <=> SelectSeq(TextsOf(Appended), IsTypeMsg) # <<>>
      ]_vars

(* C3: for an OPEN or CLOSE line processed while current_procedure is set, *)
(* nothing is printed if the base filename without extension is in the     *)
(* Exception Set, and otherwise exactly the one OPEN (CLOSE) diagnostic    *)
(* naming the current procedure.                                           *)
C3_OpenCloseByBaseName ==
    [][ ( /\ AtLine
          /\ re_open(lines[li]) \/ re_close(lines[li])
          /\ ProcedureSet )
        => IF BaseName(fn) \in open_close_exceptions
           THEN Appended = <<>>
           ELSE TextsOf(Appended) =
                  << CallMsg(fn, curr_procedure,
                             IF re_open(lines[li]) THEN "OPEN" ELSE "CLOSE") >>
      ]_vars

(* C4: no diagnostic is printed for a line that precedes the first         *)
(* procedure line of its file.                                             *)
C4_NothingBeforeFirstProcedure ==
    pc = "scan" =>
        \A k \in 1..Len(out) :
            out[k].file = fi =>
                \E j \in 1..(out[k].line - 1) : re_procedure(lines[j]).matched

\* an attribute line and an OPEN line went by before any procedure line, in
\* a file that is not excepted, and nothing was printed for the file
C4_Witness ==
    /\ pc = "scan"
    /\ li > 2
    /\ \A j \in 1..(li - 1) : ~re_procedure(lines[j]).matched
    /\ \E j \in 1..(li - 1) : re_open(lines[j])
    /\ \E j \in 1..(li - 1) : re_attr(lines[j]).matched
    /\ rsplit1(fn) \notin open_close_exceptions
    /\ FileOut(out, fi) = <<>>

(* C5: the output is only appended to, and it is ordered by file and,      *)
(* within a file, by triggering line.                                      *)
Ordered(o) ==
    \A i, j \in 1..Len(o) :
        i < j => \/ o[i].file < o[j].file
                 \/ o[i].file = o[j].file /\ o[i].line <= o[j].line

C5_OutputOrdered == [][ IsPrefix(out, out') /\ Ordered(out') ]_vars

\* a run that printed for its first and for its second file
C5_Witness ==
    /\ status = "exit0"
    /\ FileOut(out, 1) # <<>>
    /\ FileOut(out, 2) # <<>>

(* C6: what is printed for a file depends on that file alone: the scan     *)
(* state and the file's output are those of a scan that starts with both   *)
(* values unset, whatever was processed before.                            *)
C6_NoLeakAcrossFiles ==
    pc = "scan" =>
        /\ curr_procedure = LastProcedure(lines, li - 1)
        /\ curr_symbol = LastSymbol(lines, li - 1)
        /\ TextsOf(FileOut(out, fi)) = FreshScan(fn, lines, li - 1)

\* the first file left a procedure set and printed; the second file starts
\* with an OPEN line and prints nothing for it
C6_Witness ==
    /\ pc = "scan"
    /\ fi = 2
    /\ li > 1
    /\ re_open(lines[1])
    /\ rsplit1(fn) \notin open_close_exceptions
    /\ FileOut(out, 1) # <<>>
    /\ FileOut(out, 2) = <<>>

(* C7: when a file cannot be opened the run ends there: nothing of that    *)
(* file or a later one is processed or printed, and the output printed for *)
(* the earlier files stays as it is.                                       *)
C7_AbortOnUnreadableFile ==
    [][ /\ status' = "IOError" =>
              /\ pc' = "exit"
              /\ out' = out
              /\ \A k \in 1..Len(out') : out'[k].file < fi'
        /\ status = "IOError" => UNCHANGED vars
      ]_vars

\* the second file could not be opened after the first one had printed
C7_Witness ==
    /\ status = "IOError"
    /\ fi = 2
    /\ FileOut(out, 1) # <<>>

(* C8: a procedure line overwrites current_procedure, leaves               *)
(* current_symbol alone and prints nothing; a symbol line overwrites       *)
(* current_symbol, leaves current_procedure alone and prints nothing;      *)
(* every other line leaves both alone.                                     *)
C8_ScanStateFrame ==
    [][ AtLine =>
          IF re_procedure(lines[li]).matched
          THEN /\ curr_procedure' = Some(re_procedure(lines[li]).group1)
               /\ curr_symbol' = curr_symbol
               /\ out' = out
          ELSE IF re_symbol(lines[li]).matched
          THEN /\ curr_symbol' = Some(re_symbol(lines[li]).group1)
               /\ curr_procedure' = curr_procedure
               /\ out' = out
          ELSE /\ curr_procedure' = curr_procedure
               /\ curr_symbol' = curr_symbol
      ]_vars

\* a symbol line, then two procedure lines with different names: the second
\* name replaced the first and the symbol is still there
C8_Witness ==
    /\ pc = "scan"
    /\ li = 4
    /\ re_symbol(lines[1]).matched
    /\ re_procedure(lines[2]).matched
    /\ re_procedure(lines[3]).matched
    /\ re_procedure(lines[2]).group1 # re_procedure(lines[3]).group1
    /\ curr_procedure = Some(re_procedure(lines[3]).group1)
    /\ curr_symbol = Some(re_symbol(lines[1]).group1)

(* C9: an attribute line with IMPLICIT-SAVE and IMPLICIT-TYPE and without  *)
(* PARAMETER, processed while current_procedure is set, prints two         *)
(* diagnostics, IMPLICIT-SAVE first; any other line prints at most one.    *)
C9_TwoDiagnosticsInOrder ==
    [][ AtLine =>
          IF /\ re_attr(lines[li]).matched
             /\ Contains(lines[li], "IMPLICIT-SAVE")
             /\ Contains(lines[li], "IMPLICIT-TYPE")
             /\ ~Contains(lines[li], "PARAMETER")
             /\ ProcedureSet
          THEN /\ Len(Appended) = 2
               /\ IsSaveMsg(Appended[1].text)
               /\ IsTypeMsg(Appended[2].text)
          ELSE Len(Appended) <= 1
      ]_vars

(* C10: with at least one argument the only fatal outcome is a file-access *)
(* error: no sequence of lines puts the scan into an error state.          *)
C10_ScanNeverFails ==
    Len(argv) >= 1 => status \in {"running", "exit0", "IOError"}

====
